---------------------------- MODULE Spec2Model ----------------------------
(***************************************************************************)
(* Model of the Docsify index generator of yeyangchen2009/zizang:          *)
(*   src/js/generate-docs-final.js   (script "final")                      *)
(*   src/js/USAGE_EXAMPLE.md:90-705  (script "usage", the variant that the *)
(*                                    usage document carries)              *)
(* A run of main() is a state machine over a file system.  File names are  *)
(* sequences of characters, paths are sequences of names relative to the   *)
(* root directory given on the command line.                               *)
(***************************************************************************)
EXTENDS Integers, Sequences, FiniteSets, TLC

VARIABLES
  script,      \* which of the two scripts runs: "final" or "usage"
  rootName,    \* path.basename of the root directory given to the run
  fs,          \* the file system: path -> entry
  fs0,         \* the file system when main() started
  reverse,     \* whether readdirSync lists names in descending order
  pc,          \* position of main(): start, docs, done, exited, crashed, idle
  phase,       \* position inside generateDocs for the top of the stack
  scanned,     \* main's `structure`: getDirectoryStructure(targetDir)
  stack,       \* directory nodes whose generateDocs call is still pending
  pages,       \* path of a written file -> the content written
  writes,      \* the paths handed to fs.writeFileSync, in order
  crashedIn,   \* the function an uncaught exception escaped from
  returned,    \* last value returned by a metrics call made on its own
  run,         \* how many times the tool has been started on the tree
  previous     \* the pages written by the run before this one

vars == <<script, rootName, fs, fs0, reverse, pc, phase, scanned, stack, pages,
          writes, crashedIn, returned, run, previous>>

-----------------------------------------------------------------------------
(* Characters and names                                                    *)

\* The characters used by the names of the model, in UTF-16 code unit order
\* ('-' 0x2D < '.' 0x2E < digits < upper case < '_' < lower case).
CharOrder ==
  << "-", ".", "1", "A", "B", "C", "D", "E", "M", "R", "_", "a", "b", "c",
     "d", "e", "g", "i", "m", "n", "o", "p", "r", "s", "t", "v", "x", "z" >>

Code(c) == CHOOSE i \in 1..Len(CharOrder) : CharOrder[i] = c

\* a < b for strings, as the default comparison of Array.prototype.sort
RECURSIVE NameLess(_, _)
NameLess(a, b) ==
  IF a = <<>> THEN b # <<>>
  ELSE IF b = <<>> THEN FALSE
  ELSE IF Head(a) = Head(b) THEN NameLess(Tail(a), Tail(b))
  ELSE Code(Head(a)) < Code(Head(b))

MdExt == <<".", "m", "d">>

\* path.extname(file): the text from the last '.', "" when there is none or
\* when the only '.' is the first character
extname(file) ==
  LET dots == {i \in 2..Len(file) : file[i] = "."}
  IN  IF dots = {} THEN <<>>
      ELSE LET k == CHOOSE i \in dots : \A j \in dots : j <= i
           IN  SubSeq(file, k, Len(file))

\* path.basename(file, '.md')
basename(file, ext) ==
  IF Len(file) > Len(ext)
     /\ SubSeq(file, Len(file) - Len(ext) + 1, Len(file)) = ext
  THEN SubSeq(file, 1, Len(file) - Len(ext))
  ELSE file

README    == <<"R", "E", "A", "D", "M", "E", ".", "m", "d">>
SIDEBAR   == <<"_", "s", "i", "d", "e", "b", "a", "r", ".", "m", "d">>
NAVBAR    == <<"_", "n", "a", "v", "b", "a", "r", ".", "m", "d">>
COVERPAGE == <<"_", "c", "o", "v", "e", "r", "p", "a", "g", "e", ".", "m", "d">>

\* config.ignoreFiles
ignoreFiles == {SIDEBAR, README, NAVBAR, COVERPAGE}

\* config.specifiedPath: the name given as process.argv[3]
specifiedPath == <<"C">>

\* path.resolve(rootDir): paths are kept relative to it
targetDir == <<>>

\* path.resolve(dir, file)
resolve(dir, file) == Append(dir, file)


-----------------------------------------------------------------------------
(* The file system capability (fs.existsSync, statSync, readdirSync,       *)
(* readFileSync, writeFileSync).  An entry F[p] is                         *)
(*   [type: "dir" | "file" | "broken", size, readable, writable]           *)
(* "broken" is a name that readdirSync lists and statSync fails on (a      *)
(* dangling symbolic link); readable = FALSE is a directory that cannot be *)
(* listed or a file whose content cannot be read (EACCES); writable =      *)
(* FALSE is a directory in which no file can be created or overwritten.    *)

Dir(w)        == [type |-> "dir", size |-> 0, readable |-> TRUE, writable |-> w]
File(n)       == [type |-> "file", size |-> n, readable |-> TRUE, writable |-> TRUE]
Broken        == [type |-> "broken", size |-> 0, readable |-> FALSE, writable |-> FALSE]

statOk(F, p)      == p \in DOMAIN F /\ F[p].type # "broken"
existsSync(F, p)  == statOk(F, p)
isDirectory(F, p) == F[p].type = "dir"
readdirOk(F, p)   == statOk(F, p) /\ isDirectory(F, p) /\ F[p].readable
readFileOk(F, p)  == statOk(F, p) /\ ~isDirectory(F, p) /\ F[p].readable
writeFileOk(F, p) ==
  /\ p # <<>>
  /\ LET d == SubSeq(p, 1, Len(p) - 1)
     IN  statOk(F, d) /\ isDirectory(F, d) /\ F[d].writable
  /\ (p \in DOMAIN F => F[p].type = "file")

childNames(F, p) ==
  {q[Len(q)] : q \in {r \in DOMAIN F : Len(r) = Len(p) + 1
                                        /\ SubSeq(r, 1, Len(p)) = p}}

Range(s) == {s[i] : i \in DOMAIN s}

\* the distinct strings of S in ascending order
RECURSIVE ascending(_)
ascending(S) ==
  IF S = {} THEN <<>>
  ELSE LET m == CHOOSE x \in S : \A y \in S \ {x} : NameLess(x, y)
       IN  <<m>> \o ascending(S \ {m})

\* sort() left out: the array stays in the order it was filled in
noSort(arr) == arr

\* Array.prototype.sort() of an array of distinct strings
sort(arr) == ascending(Range(arr))

Reverse(s) == [i \in 1..Len(s) |-> s[Len(s) + 1 - i]]

\* fs.readdirSync(dir): the names of the entries, in the order the file
\* system keeps them (ascending or descending, fixed for the run)
readdirSync(F, p) ==
  IF reverse THEN Reverse(ascending(childNames(F, p)))
  ELSE ascending(childNames(F, p))

\* Buffer.byteLength(fs.readFileSync(p, 'utf8'), 'utf8') of a text file
byteLength(F, p) == F[p].size

-----------------------------------------------------------------------------
(* Content metrics                                                         *)

KB == 1024
MB == 1024 * 1024

\* Math.round(size / unit * 100): the printed number in hundredths
\* (Math.round rounds halves up)
roundedHundredths(size, unit) == (2 * size * 100 + unit) \div (2 * unit)

\* Number.prototype.toString of h / 100
numberToString(h) ==
  LET int == h \div 100
      frac == h % 100
  IN  IF frac = 0 THEN ToString(int)
      ELSE IF frac % 10 = 0 THEN ToString(int) \o "." \o ToString(frac \div 10)
      ELSE IF frac < 10 THEN ToString(int) \o ".0" \o ToString(frac)
      ELSE ToString(int) \o "." \o ToString(frac)

\* the unit the size is printed in
unitOf(size) ==
  IF size < KB THEN "B" ELSE IF size < MB THEN "KB" ELSE "MB"

\* the number printed, in hundredths of the unit
printedHundredths(size) ==
  IF size < KB THEN size * 100
  ELSE IF size < MB THEN roundedHundredths(size, KB)
  ELSE roundedHundredths(size, MB)

\* the `formatted` string built by getFileSize and getDirectorySize
formatted(size) ==
  numberToString(printedHundredths(size)) \o " " \o unitOf(size)

getFileSize(F, filePath) ==
  IF statOk(F, filePath)
  THEN [size |-> F[filePath].size, formatted |-> formatted(F[filePath].size)]
  ELSE [size |-> 0, formatted |-> "0 B"]

estimateWordCount(F, filePath) ==
  IF readFileOk(F, filePath)
  THEN (byteLength(F, filePath) + 1) \div 3   \* Math.round(n / 3)
  ELSE 0

\* the value a loop body yields when an exception left it
Thrown == 0 - 1

\* the loop of getDirectorySize without the recursion into sub-directories
RECURSIVE sizeLoopFlat(_, _, _, _)
sizeLoopFlat(F, dirPath, list, totalSize) ==
  IF list = <<>> THEN totalSize
  ELSE LET fullPath == resolve(dirPath, Head(list))
       IN  IF ~statOk(F, fullPath) THEN Thrown
           ELSE sizeLoopFlat(F, dirPath, Tail(list),
                  totalSize + (IF isDirectory(F, fullPath) THEN 0
                               ELSE F[fullPath].size))

RECURSIVE getDirectorySize(_, _), sizeLoop(_, _, _, _)
sizeLoop(F, dirPath, list, totalSize) ==
  IF list = <<>> THEN totalSize
  ELSE LET fullPath == resolve(dirPath, Head(list))
       IN  IF ~statOk(F, fullPath) THEN Thrown
           ELSE sizeLoop(F, dirPath, Tail(list),
                  totalSize + (IF isDirectory(F, fullPath)
                               THEN getDirectorySize(F, fullPath).size
                               ELSE F[fullPath].size))
getDirectorySize(F, dirPath) ==
  IF ~readdirOk(F, dirPath) THEN [size |-> 0, formatted |-> "0 B"]
  ELSE LET totalSize == sizeLoop(F, dirPath, readdirSync(F, dirPath), 0)
       IN  IF totalSize = Thrown THEN [size |-> 0, formatted |-> "0 B"]
           ELSE [size |-> totalSize, formatted |-> formatted(totalSize)]

RECURSIVE estimateDirectoryWordCount(_, _), wordLoop(_, _, _, _)
wordLoop(F, dirPath, list, totalWordCount) ==
  IF list = <<>> THEN totalWordCount
  ELSE LET fullPath == resolve(dirPath, Head(list))
       IN  IF ~statOk(F, fullPath) THEN Thrown
           ELSE wordLoop(F, dirPath, Tail(list),
                  totalWordCount
                  + (IF isDirectory(F, fullPath)
                     THEN estimateDirectoryWordCount(F, fullPath)
                     ELSE IF extname(Head(list)) = MdExt
                     THEN estimateWordCount(F, fullPath)
                     ELSE 0))
estimateDirectoryWordCount(F, dirPath) ==
  IF ~readdirOk(F, dirPath) THEN 0
  ELSE LET total == wordLoop(F, dirPath, readdirSync(F, dirPath), 0)
       IN  IF total = Thrown THEN 0 ELSE total

\* the loop of countMarkdownFiles without the recursion into sub-directories
RECURSIVE countLoopFlat(_, _, _, _)
countLoopFlat(F, dirPath, list, count) ==
  IF list = <<>> THEN count
  ELSE LET fullPath == resolve(dirPath, Head(list))
       IN  IF ~statOk(F, fullPath) THEN Thrown
           ELSE countLoopFlat(F, dirPath, Tail(list),
                  count + (IF ~isDirectory(F, fullPath)
                              /\ extname(Head(list)) = MdExt THEN 1 ELSE 0))

RECURSIVE countMarkdownFiles(_, _), countLoop(_, _, _, _)
countLoop(F, dirPath, list, count) ==
  IF list = <<>> THEN count
  ELSE LET fullPath == resolve(dirPath, Head(list))
       IN  IF ~statOk(F, fullPath) THEN Thrown
           ELSE countLoop(F, dirPath, Tail(list),
                  count + (IF isDirectory(F, fullPath)
                           THEN countMarkdownFiles(F, fullPath)
                           ELSE IF extname(Head(list)) = MdExt THEN 1
                           ELSE 0))
countMarkdownFiles(F, dirPath) ==
  IF ~readdirOk(F, dirPath) THEN 0
  ELSE LET count == countLoop(F, dirPath, readdirSync(F, dirPath), 0)
       IN  IF count = Thrown THEN 0 ELSE count

-----------------------------------------------------------------------------
(* Tree scanner                                                            *)

\* an exception that left getDirectoryStructure (it has no try/catch)
Throw == [type |-> "throw"]

fileNode(F, dir, file, depth) ==
  LET fullPath == resolve(dir, file)
      fileSize == getFileSize(F, fullPath)
  IN  [name |-> basename(file, MdExt),
       path |-> fullPath,
       type |-> "file",
       depth |-> depth + 1,
       size |-> fileSize.size,
       formattedSize |-> fileSize.formatted,
       wordCount |-> estimateWordCount(F, fullPath)]

RECURSIVE getDirectoryStructure(_, _, _)
getDirectoryStructure(F, dir, depth) ==
  LET result == [name |-> IF dir = <<>> THEN rootName ELSE dir[Len(dir)],
                 path |-> dir,
                 type |-> "directory",
                 children |-> <<>>,
                 depth |-> depth]
  IN
  IF ~existsSync(F, dir) THEN result
  ELSE IF ~readdirOk(F, dir) THEN Throw
  ELSE
    LET list == readdirSync(F, dir)
        kept == SelectSeq(list, LAMBDA file : file \notin ignoreFiles)
        directories ==
          SelectSeq(kept, LAMBDA file : isDirectory(F, resolve(dir, file)))
        files ==
          SelectSeq(kept, LAMBDA file : ~isDirectory(F, resolve(dir, file))
                                        /\ extname(file) = MdExt)
        sortedFiles == sort(files)
        sortedDirs == sort(directories)
        fileNodes == [i \in 1..Len(sortedFiles) |->
                        fileNode(F, dir, sortedFiles[i], depth)]
        dirNodes == [i \in 1..Len(sortedDirs) |->
                       getDirectoryStructure(F, resolve(dir, sortedDirs[i]),
                                             depth + 1)]
    IN  IF \E i \in 1..Len(kept) : ~statOk(F, resolve(dir, kept[i]))
        THEN Throw
        ELSE IF \E i \in 1..Len(dirNodes) : dirNodes[i] = Throw THEN Throw
        ELSE [result EXCEPT !.children = fileNodes \o dirNodes]

isFile(item) == item.type = "file"
isDir(item)  == item.type = "directory"

-----------------------------------------------------------------------------
(* Page renderer.  A page is the record of what its text holds: the        *)
(* template, the heading, and one record per table row or list item.  A    *)
(* link is [abs, segs]: the '/'-joined segments, with a leading '/' when   *)
(* abs.                                                                    *)

DotDot == <<".", ".">>
Dot    == <<".">>

rel(segs)  == [abs |-> FALSE, segs |-> segs]
root(segs) == [abs |-> TRUE, segs |-> segs]

\* path.relative(basePath, p).replace(/\\/g, '/'), for p below basePath
relative(basePath, p) == SubSeq(p, Len(basePath) + 1, Len(p))

filesOf(structure) == SelectSeq(structure.children, isFile)
dirsOf(structure)  == SelectSeq(structure.children, isDir)

\* one table row per file node: [name](link) | wordCount | formattedSize
fileRow(basePath, file) ==
  [kind |-> "file",
   name |-> file.name,
   link |-> rel(relative(basePath, file.path)),
   words |-> file.wordCount,
   size |-> file.formattedSize]

\* structure.children.find(directory named config.specifiedPath)
specifiedPathDirOf(structure) ==
  LET found == SelectSeq(structure.children,
                         LAMBDA item : isDir(item) /\ item.name = specifiedPath)
  IN  IF found = <<>> THEN <<>> ELSE <<found[1]>>

generateRootReadmeContent(F, structure, basePath) ==
  LET found == specifiedPathDirOf(structure)
  IN  [template |-> "root",
       heading |-> specifiedPath,
       rows |->
         IF found = <<>> THEN <<>>
         ELSE LET specifiedPathDir == found[1]
                  subDirectories == dirsOf(specifiedPathDir)
              IN  << [name |-> specifiedPathDir.name,
                      link |-> rel(<<specifiedPath, README>>),
                      count |-> countMarkdownFiles(F, specifiedPathDir.path),
                      words |-> estimateDirectoryWordCount(F, specifiedPathDir.path),
                      size |-> getDirectorySize(F, specifiedPathDir.path).formatted] >>
                  \o [i \in 1..Len(subDirectories) |->
                       [name |-> subDirectories[i].name,
                        link |-> rel(<<specifiedPath, subDirectories[i].name, README>>),
                        count |-> countMarkdownFiles(F, subDirectories[i].path),
                        words |-> estimateDirectoryWordCount(F, subDirectories[i].path),
                        size |-> getDirectorySize(F, subDirectories[i].path).formatted]]]

\* the sub-table of one sub-directory, script "final": its files, always
subTable(F, dir, basePath) ==
  LET subdirStructure == getDirectoryStructure(F, dir.path, 0)
  IN  IF subdirStructure = Throw THEN Throw
      ELSE LET files == filesOf(subdirStructure)
           IN  [type |-> "table",
                name |-> dir.name,
                rows |-> [i \in 1..Len(files) |-> fileRow(basePath, files[i])]]

\* the sub-table of one sub-directory, script "usage": its files, or one
\* roll-up row when it holds sub-directories and no file
subTableUsage(F, dir, basePath) ==
  LET subdirStructure == getDirectoryStructure(F, dir.path, 0)
  IN  IF subdirStructure = Throw THEN Throw
      ELSE LET files == filesOf(subdirStructure)
               subdirs == dirsOf(subdirStructure)
           IN  [type |-> "table",
                name |-> dir.name,
                rows |->
                  IF Len(files) > 0
                  THEN [i \in 1..Len(files) |-> fileRow(basePath, files[i])]
                  ELSE IF Len(subdirs) > 0
                  THEN << [kind |-> "rollup",
                           count |-> countMarkdownFiles(F, dir.path),
                           link |-> rel(Append(relative(basePath, dir.path), README)),
                           words |-> estimateDirectoryWordCount(F, dir.path),
                           size |-> getDirectorySize(F, dir.path).formatted] >>
                  ELSE <<>>]

specifiedPage(F, structure, tables, overviewLink) ==
  IF \E i \in 1..Len(tables) : tables[i] = Throw THEN Throw
  ELSE [template |-> "specified",
        heading |-> structure.name,
        fileCount |-> Len(filesOf(structure)),
        dirCount |-> Len(dirsOf(structure)),
        overview |-> [name |-> structure.name,
                      link |-> overviewLink,
                      count |-> countMarkdownFiles(F, structure.path),
                      words |-> estimateDirectoryWordCount(F, structure.path),
                      size |-> getDirectorySize(F, structure.path).formatted],
        tables |-> tables]

\* generate-docs-final.js
generateSpecifiedPathReadmeContent(F, structure, basePath) ==
  LET directories == dirsOf(structure)
  IN  specifiedPage(F, structure,
        [i \in 1..Len(directories) |-> subTable(F, directories[i], basePath)],
        <<>>)

\* USAGE_EXAMPLE.md
generateSpecifiedPathReadmeContentUsage(F, structure, basePath) ==
  LET directories == dirsOf(structure)
  IN  specifiedPage(F, structure,
        [i \in 1..Len(directories) |-> subTableUsage(F, directories[i], basePath)],
        <<root(<<README>>)>>)

\* USAGE_EXAMPLE.md only
generateIntermediateReadmeContent(F, structure, basePath) ==
  LET files == filesOf(structure)
      directories == dirsOf(structure)
  IN  [template |-> "intermediate",
       heading |-> structure.name,
       fileCount |-> Len(files),
       dirCount |-> Len(directories),
       files |-> [i \in 1..Len(files) |-> fileRow(basePath, files[i])],
       dirs |-> [i \in 1..Len(directories) |->
                  [name |-> directories[i].name,
                   link |-> rel(Append(relative(basePath, directories[i].path), README)),
                   count |-> countMarkdownFiles(F, directories[i].path),
                   words |-> estimateDirectoryWordCount(F, directories[i].path),
                   size |-> getDirectorySize(F, directories[i].path).formatted]]]

generateNormalReadmeContent(structure, basePath) ==
  LET files == filesOf(structure)
      directories == dirsOf(structure)
  IN  [template |-> "normal",
       heading |-> structure.name,
       fileCount |-> Len(files),
       dirCount |-> Len(directories),
       files |-> [i \in 1..Len(files) |-> fileRow(basePath, files[i])],
       dirs |-> [i \in 1..Len(directories) |->
                  [name |-> directories[i].name,
                   link |-> rel(Append(relative(basePath, directories[i].path), README))]]]

generateRootSidebarContent(structure, homeLink) ==
  LET found == specifiedPathDirOf(structure)
  IN  [template |-> "rootSidebar",
       home |-> homeLink,
       collection |-> IF found = <<>> THEN <<>>
                      ELSE <<rel(<<specifiedPath, README>>)>>,
       dirs |-> IF found = <<>> THEN <<>>
                ELSE LET subDirectories == dirsOf(found[1])
                     IN  [i \in 1..Len(subDirectories) |->
                           [name |-> subDirectories[i].name,
                            link |-> rel(<<specifiedPath, subDirectories[i].name,
                                           README>>)]]]

fileLink(basePath, item) ==
  [name |-> item.name, link |-> rel(relative(basePath, item.path))]

\* generate-docs-final.js
generateSubdirSidebarContent(structure, basePath) ==
  LET files == filesOf(structure)
  IN  [template |-> "subdirSidebar",
       backToRoot |-> rel(<<DotDot, README>>),
       backToParent |-> rel(<<Dot, README>>),
       self |-> <<>>,
       files |-> [i \in 1..Len(files) |-> fileLink(basePath, files[i])],
       dirs |-> <<>>]

\* USAGE_EXAMPLE.md
generateSubdirSidebarContentUsage(structure, basePath) ==
  LET relativePath == relative(basePath, structure.path)
      \* ''.split('/') is [''], one part
      parts == IF relativePath = <<>> THEN 1 ELSE Len(relativePath)
      files == filesOf(structure)
      directories == dirsOf(structure)
  IN  [template |-> "subdirSidebar",
       backToRoot |-> root(<<README>>),
       backToParent |->
         IF parts <= 1 THEN root(<<README>>)
         ELSE rel(Append(SubSeq(relativePath, 1, Len(relativePath) - 1), README)),
       self |-> IF relativePath # <<>>
                THEN <<rel(Append(relativePath, README))>>
                ELSE <<rel(<<specifiedPath, README>>)>>,
       files |-> [i \in 1..Len(files) |-> fileLink(basePath, files[i])],
       dirs |-> [i \in 1..Len(directories) |->
                  [name |-> directories[i].name,
                   link |-> rel(Append(relative(basePath, directories[i].path),
                                       README))]]]

-----------------------------------------------------------------------------
(* Tree walker: generateDocs(structure, basePath, isRoot)                  *)

\* the README content of one node, generate-docs-final.js
readmeContent(F, structure, basePath, isRoot) ==
  IF isRoot THEN generateRootReadmeContent(F, structure, basePath)
  ELSE IF structure.name = specifiedPath
  THEN generateSpecifiedPathReadmeContent(F, structure, basePath)
  ELSE generateNormalReadmeContent(structure, basePath)

\* the README content of one node, USAGE_EXAMPLE.md
readmeContentUsage(F, structure, basePath, isRoot) ==
  IF isRoot THEN generateRootReadmeContent(F, structure, basePath)
  ELSE IF structure.name = specifiedPath
  THEN generateSpecifiedPathReadmeContentUsage(F, structure, basePath)
  ELSE IF \E i \in 1..Len(structure.children) : isDir(structure.children[i])
  THEN generateIntermediateReadmeContent(F, structure, basePath)
  ELSE generateNormalReadmeContent(structure, basePath)

\* whether generateDocs writes a sidebar for the node, generate-docs-final.js
writesSidebar(structure) == structure.name # specifiedPath

\* whether generateDocs writes a sidebar for the node, USAGE_EXAMPLE.md
writesSidebarUsage(structure) == TRUE

sidebarContent(structure, basePath, isRoot) ==
  IF isRoot THEN generateRootSidebarContent(structure, rel(<<README>>))
  ELSE generateSubdirSidebarContent(structure, basePath)

sidebarContentUsage(structure, basePath, isRoot) ==
  IF isRoot THEN generateRootSidebarContent(structure, root(<<README>>))
  ELSE generateSubdirSidebarContentUsage(structure, basePath)

\* the bytes of a written page: a fixed text plus one line per row or link
\* (a measure of the text, not its exact length)
rowsOf(content) ==
  IF content.template = "root" THEN Len(content.rows)
  ELSE IF content.template = "specified" THEN Len(content.tables)
  ELSE IF content.template = "rootSidebar" THEN Len(content.dirs)
  ELSE Len(content.files) + Len(content.dirs)
pageBytes(content) == 60 + 40 * rowsOf(content)

\* fs.writeFileSync(p, content, 'utf8') on a path that can be written
writeFileSync(F, p, content) ==
  [q \in DOMAIN F \cup {p} |-> IF q = p THEN File(pageBytes(content)) ELSE F[q]]

-----------------------------------------------------------------------------
(* The file systems a run starts from.  Below the root: optionally the     *)
(* designated collection C, holding (or, without C, the root holding)      *)
(*   A/  with 0, 1 or 2 documents, or a document and a file that is not a  *)
(*       document, optionally a README.md left by an earlier run;          *)
(*   B/  empty, or holding B1/ (empty or with one document), optionally    *)
(*       with a document of its own;                                       *)
(* and at most MaxFaults faults.                                           *)

nA   == <<"A">>
nB   == <<"B">>
nB1  == <<"B", "1">>
aMd  == <<"a", ".", "m", "d">>
abMd == <<"a", "-", "b", ".", "m", "d">>
zLnk == <<"z">>
nTxt == <<"n", ".", "t", "x", "t">>

MaxFaults == 1

\* the number of times the tool is started on one tree
MaxRuns == 2

FaultKinds == {"listA", "brokenA", "readA", "listB1", "writeB", "brokenB"}
AShapes    == {"none", "empty", "one", "two", "mixed"}
BShapes    == {"none", "empty", "B1", "B1doc", "docB1doc"}
Profiles   == {"scenario", "edge"}

Configs ==
  [top : {<<>>, <<specifiedPath>>}, a : AShapes, b : BShapes,
   readme : BOOLEAN, profile : Profiles,
   faults : {S \in SUBSET FaultKinds : Cardinality(S) <= MaxFaults}]

\* byte sizes of the documents: the sizes of the scenario (500 B and 2000 B
\* in A, 10 B in B1), or sizes at the edges of the unit bands
sizeOf(c, p) ==
  LET name == p[Len(p)]
      inA == p[Len(p) - 1] = nA
      inB1 == p[Len(p) - 1] = nB1
  IN  IF name = README THEN 300
      ELSE IF name = nTxt THEN 100
      ELSE IF c.profile = "scenario"
      THEN (IF inA THEN (IF name = aMd THEN 500 ELSE 2000)
            ELSE IF inB1 THEN 10 ELSE 7)
      ELSE (IF inA THEN (IF name = aMd THEN MB - 1 ELSE 1)
            ELSE IF inB1 THEN KB ELSE 0)

dirPaths(c) ==
  {<<>>}
  \cup (IF c.top = <<>> THEN {} ELSE {c.top})
  \cup (IF c.a = "none" THEN {} ELSE {c.top \o <<nA>>})
  \cup (IF c.b = "none" THEN {} ELSE {c.top \o <<nB>>})
  \cup (IF c.b \in {"B1", "B1doc", "docB1doc"} THEN {c.top \o <<nB, nB1>>} ELSE {})

filePaths(c) ==
  (IF c.a \in {"one", "two", "mixed"} THEN {c.top \o <<nA, aMd>>} ELSE {})
  \cup (IF c.a = "mixed" THEN {c.top \o <<nA, nTxt>>} ELSE {})
  \cup (IF c.a = "two" THEN {c.top \o <<nA, abMd>>} ELSE {})
  \cup (IF c.a # "none" /\ c.readme THEN {c.top \o <<nA, README>>} ELSE {})
  \cup (IF c.b \in {"B1doc", "docB1doc"} THEN {c.top \o <<nB, nB1, aMd>>} ELSE {})
  \cup (IF c.b = "docB1doc" THEN {c.top \o <<nB, aMd>>} ELSE {})

brokenPaths(c) ==
  (IF "brokenA" \in c.faults /\ c.a # "none" THEN {c.top \o <<nA, zLnk>>} ELSE {})
  \cup (IF "brokenB" \in c.faults /\ c.b # "none" THEN {c.top \o <<nB, zLnk>>} ELSE {})

faulty(c, kind, p) ==
  /\ kind \in c.faults
  /\ p = c.top \o (CASE kind = "listA" -> <<nA>>
                     [] kind = "readA" -> <<nA, aMd>>
                     [] kind = "listB1" -> <<nB, nB1>>
                     [] kind = "writeB" -> <<nB>>
                     [] OTHER -> <<zLnk>>)

MkFS(c) ==
  [p \in dirPaths(c) \cup filePaths(c) \cup brokenPaths(c) |->
     IF p \in dirPaths(c)
     THEN [Dir(~faulty(c, "writeB", p)) EXCEPT
             !.readable = ~(faulty(c, "listA", p) \/ faulty(c, "listB1", p))]
     ELSE IF p \in filePaths(c)
     THEN [File(sizeOf(c, p)) EXCEPT !.readable = ~faulty(c, "readA", p)]
     ELSE Broken]

\* the root path does not exist
NoFS == [p \in {} |-> Broken]

FileSystems == {MkFS(c) : c \in Configs} \cup {NoFS}

\* the names of the root directory: some other name, or, when the root
\* holds no directory of that name, the name of the designated collection
RootNames(F) ==
  IF <<specifiedPath>> \in DOMAIN F THEN {<<"D">>} ELSE {<<"D">>, specifiedPath}

None == [type |-> "none"]

Init ==
  /\ script \in {"final", "usage"}
  /\ fs \in FileSystems
  /\ fs0 = fs
  /\ rootName \in RootNames(fs)
  /\ reverse \in BOOLEAN
  /\ pc = "start"
  /\ phase = "none"
  /\ scanned = None
  /\ stack = <<>>
  /\ pages = [p \in {} |-> None]
  /\ writes = <<>>
  /\ crashedIn = "none"
  /\ returned = None
  /\ run = 1
  /\ previous = [p \in {} |-> None]

-----------------------------------------------------------------------------
(* main() and generateDocs                                                 *)

crash(where) ==
  /\ pc' = "crashed"
  /\ crashedIn' = where
  /\ phase' = "none"
  /\ UNCHANGED <<run, previous, script, rootName, fs, fs0, reverse, scanned, stack, pages, writes, returned>>

\* main() without the existence check of the root
neverExits(F) == FALSE

\* main(), up to the call of generateDocs: the existence check of the root
\* (process.exit(1)) and the scan
exitsOnMissingRoot(F) == ~existsSync(F, targetDir)

Main ==
  /\ pc = "start"
  /\ IF exitsOnMissingRoot(fs)
     THEN /\ pc' = "exited"
          /\ UNCHANGED <<run, previous, script, rootName, fs, fs0, reverse, phase, scanned, stack, pages,
                         writes, crashedIn, returned>>
     ELSE LET s == getDirectoryStructure(fs, targetDir, 0)
          IN  IF s = Throw THEN crash("getDirectoryStructure")
              ELSE /\ pc' = "docs"
                   /\ phase' = "readme"
                   /\ scanned' = s
                   /\ stack' = <<[node |-> s, isRoot |-> TRUE]>>
                   /\ UNCHANGED <<run, previous, script, rootName, fs, fs0, reverse, pages, writes,
                                  crashedIn, returned>>

\* the README opened for writing before its content is rendered
renderedAfterOpen(F, readmePath) ==
  [q \in DOMAIN F \cup {readmePath} |-> IF q = readmePath THEN File(0) ELSE F[q]]

\* the file system the generators of the README read: generateDocs renders
\* the whole content first and calls fs.writeFileSync after it
renderedOn(F, readmePath) == F

\* generateDocs, first half: render the README of the node and write it
WriteReadme ==
  /\ pc = "docs" /\ phase = "readme"
  /\ LET top == Head(stack)
         readmePath == resolve(top.node.path, README)
         F == renderedOn(fs, readmePath)
         content == IF script = "final"
                    THEN readmeContent(F, top.node, targetDir, top.isRoot)
                    ELSE readmeContentUsage(F, top.node, targetDir, top.isRoot)
     IN  IF content = Throw THEN crash("generateSpecifiedPathReadmeContent")
         ELSE IF ~writeFileOk(fs, readmePath) THEN crash("writeFileSync")
         ELSE /\ fs' = writeFileSync(fs, readmePath, content)
              /\ pages' = [q \in DOMAIN pages \cup {readmePath} |->
                             IF q = readmePath THEN content ELSE pages[q]]
              /\ writes' = Append(writes, readmePath)
              /\ phase' = "sidebar"
              /\ UNCHANGED <<run, previous, script, rootName, fs0, reverse, pc, scanned, stack, crashedIn,
                             returned>>

\* the forEach taken backwards: the last directory child first
recurseBackwards(structure, pending) ==
  LET directories == Reverse(dirsOf(structure))
  IN  [i \in 1..Len(directories) |->
         [node |-> directories[i], isRoot |-> FALSE]] \o pending

\* structure.children.forEach(item => generateDocs(item, basePath, false))
\* for the directory children: their calls run in the order of the
\* children, each to its end, before the calls that were pending
recurse(structure, pending) ==
  LET directories == dirsOf(structure)
  IN  [i \in 1..Len(directories) |->
         [node |-> directories[i], isRoot |-> FALSE]] \o pending

\* generateDocs, second half: render and write the sidebar (when the script
\* writes one for the node), then recurse into the directory children in
\* order; main() ends when the last call returns
WriteSidebar ==
  /\ pc = "docs" /\ phase = "sidebar"
  /\ LET top == Head(stack)
         wanted == IF script = "final" THEN writesSidebar(top.node)
                   ELSE writesSidebarUsage(top.node)
         content == IF script = "final"
                    THEN sidebarContent(top.node, targetDir, top.isRoot)
                    ELSE sidebarContentUsage(top.node, targetDir, top.isRoot)
         sidebarPath == resolve(top.node.path, SIDEBAR)
         rest == recurse(top.node, Tail(stack))
     IN  IF wanted /\ ~writeFileOk(fs, sidebarPath) THEN crash("writeFileSync")
         ELSE /\ IF wanted
                 THEN /\ fs' = writeFileSync(fs, sidebarPath, content)
                      /\ pages' = [q \in DOMAIN pages \cup {sidebarPath} |->
                                     IF q = sidebarPath THEN content ELSE pages[q]]
                      /\ writes' = Append(writes, sidebarPath)
                 ELSE UNCHANGED <<fs, pages, writes>>
              /\ stack' = rest
              /\ pc' = IF rest = <<>> THEN "done" ELSE "docs"
              /\ phase' = IF rest = <<>> THEN "none" ELSE "readme"
              /\ UNCHANGED <<run, previous, script, rootName, fs0, reverse, scanned, crashedIn, returned>>

\* the tool is started again on the tree that a completed run left
Rerun ==
  /\ pc = "done"
  /\ run < MaxRuns
  /\ run' = run + 1
  /\ previous' = pages
  /\ fs0' = fs
  /\ pc' = "start"
  /\ phase' = "none"
  /\ scanned' = None
  /\ stack' = <<>>
  /\ pages' = [p \in {} |-> None]
  /\ writes' = <<>>
  /\ UNCHANGED <<script, rootName, fs, reverse, crashedIn, returned>>

Next == Main \/ WriteReadme \/ WriteSidebar \/ Rerun

Spec == Init /\ [][Next]_vars

-----------------------------------------------------------------------------
(* The metrics functions called on their own, on any path of a tree: on    *)
(* the trees of a run and on one-file trees with sizes around the edges of *)
(* the unit bands.                                                         *)

Window == 40

TestSizes ==
  (0..Window) \cup ((KB - Window)..(KB + Window)) \cup ((MB - Window)..(MB + Window))

SizeFileSystems ==
  {[p \in {<<>>, <<aMd>>} |-> IF p = <<>> THEN Dir(TRUE) ELSE File(n)] :
     n \in TestSizes}

InitMetrics ==
  /\ script = "final"
  /\ rootName = <<"D">>
  /\ fs \in (FileSystems \ {NoFS}) \cup SizeFileSystems
  /\ fs0 = fs
  /\ reverse \in BOOLEAN
  /\ pc = "idle"
  /\ phase = "none"
  /\ scanned = None
  /\ stack = <<>>
  /\ pages = [p \in {} |-> None]
  /\ writes = <<>>
  /\ crashedIn = "none"
  /\ returned = None
  /\ run = 1
  /\ previous = [p \in {} |-> None]

call(name, p, value) ==
  /\ pc = "idle"
  /\ returned' = [call |-> name, path |-> p, value |-> value]
  /\ UNCHANGED <<run, previous, script, rootName, fs, fs0, reverse, pc, phase, scanned, stack,
                 pages, writes, crashedIn>>

CallGetFileSize ==
  \E p \in DOMAIN fs :
    fs[p].type # "dir" /\ call("getFileSize", p, getFileSize(fs, p))

CallEstimateWordCount ==
  \E p \in DOMAIN fs :
    fs[p].type # "dir" /\ call("estimateWordCount", p, estimateWordCount(fs, p))

CallGetDirectorySize ==
  \E d \in DOMAIN fs :
    fs[d].type = "dir" /\ call("getDirectorySize", d, getDirectorySize(fs, d))

CallEstimateDirectoryWordCount ==
  \E d \in DOMAIN fs :
    /\ fs[d].type = "dir"
    /\ call("estimateDirectoryWordCount", d, estimateDirectoryWordCount(fs, d))

CallCountMarkdownFiles ==
  \E d \in DOMAIN fs :
    fs[d].type = "dir" /\ call("countMarkdownFiles", d, countMarkdownFiles(fs, d))

NextMetrics ==
  \/ CallGetFileSize
  \/ CallEstimateWordCount
  \/ CallGetDirectorySize
  \/ CallEstimateDirectoryWordCount
  \/ CallCountMarkdownFiles

SpecMetrics == InitMetrics /\ [][NextMetrics]_vars

-----------------------------------------------------------------------------
(* Properties                                                              *)

dirOf(p) == SubSeq(p, 1, Len(p) - 1)

\* the immediate sub-directories of d, and the names of its direct .md files
subDirectories(F, d) ==
  {resolve(d, n) : n \in {m \in childNames(F, d) : F[resolve(d, m)].type = "dir"}}
directMd(F, d) ==
  {n \in childNames(F, d) : F[resolve(d, n)].type = "file" /\ extname(n) = MdExt}
\* direct document files: .md files that are not reserved names
directDocuments(F, d) == directMd(F, d) \ ignoreFiles

RECURSIVE SumCounts(_, _)
SumCounts(F, S) ==
  IF S = {} THEN 0
  ELSE LET d == CHOOSE x \in S : TRUE
       IN  countMarkdownFiles(F, d) + SumCounts(F, S \ {d})

\* listing d and the stat of every entry of d succeed
scannable(F, d) ==
  readdirOk(F, d) /\ \A n \in childNames(F, d) : statOk(F, resolve(d, n))

directories(F) == {d \in DOMAIN F : F[d].type = "dir"}

RECURSIVE dirNodes(_)
dirNodes(n) ==
  {n} \cup UNION {dirNodes(c) : c \in Range(dirsOf(n))}
fileNodes(n) ==
  UNION {Range(filesOf(d)) : d \in dirNodes(n)}

\* C1 as stated: in every file system, failing listings and stats included,
\* the count returned for a directory is the sum of the counts of its
\* immediate sub-directories plus the number of its direct .md files.
C1_AdditiveEverywhere ==
  (returned # None /\ returned.call = "countMarkdownFiles") =>
    returned.value
      = SumCounts(fs, subDirectories(fs, returned.path))
        + Cardinality(directMd(fs, returned.path))

\* C1 amended: the count of a directory whose listing and whose entries'
\* stats all succeed is the sum of the counts of its immediate
\* sub-directories plus the number of its direct .md files; the count of a
\* directory whose listing or one of whose entries' stat fails is 0.
C1_AdditiveWhereScannable ==
  (returned # None /\ returned.call = "countMarkdownFiles") =>
    IF scannable(fs, returned.path)
    THEN returned.value
           = SumCounts(fs, subDirectories(fs, returned.path))
             + Cardinality(directMd(fs, returned.path))
    ELSE returned.value = 0

\* the count of a directory with documents of its own and in a
\* sub-directory, in a tree where another directory holds a document and an
\* entry whose stat fails
C1_Witness ==
  /\ returned # None
  /\ returned.call = "countMarkdownFiles"
  /\ scannable(fs, returned.path)
  /\ SumCounts(fs, subDirectories(fs, returned.path)) > 0
  /\ directMd(fs, returned.path) # {}
  /\ returned.value > 1
  /\ \E d \in directories(fs) : ~scannable(fs, d) /\ directMd(fs, d) # {}

\* C2: the number printed by getFileSize / getDirectorySize is below 1024 in
\* its unit; 1024 bytes print as "1 KB" and 1048576 bytes as "1 MB".
C2_PrintedBelow1024 ==
  (returned # None /\ returned.call \in {"getFileSize", "getDirectorySize"}) =>
    LET size == returned.value.size
        h == printedHundredths(size)
    IN  /\ returned.value.formatted = numberToString(h) \o " " \o unitOf(size)
        /\ h < 1024 * 100
        /\ (size = KB => returned.value.formatted = "1 KB")
        /\ (size = MB => returned.value.formatted = "1 MB")

\* the tree of the end-to-end scenario: C/A with documents of 500 B and
\* 2000 B, C/B without files, C/B/B1 with one document of 10 B
ScenarioFS ==
  MkFS([top |-> <<specifiedPath>>, a |-> "two", b |-> "B1doc", readme |-> FALSE,
        profile |-> "scenario", faults |-> {}])

\* C3 as stated: in the scenario the Root page has a row for C with document
\* count 3 and size "2.44 KB".
C3_RootRow244 ==
  (fs0 = ScenarioFS /\ <<README>> \in DOMAIN pages) =>
    LET row == pages[<<README>>].rows[1]
    IN  row.name = specifiedPath /\ row.count = 3 /\ row.size = "2.44 KB"

\* C3 amended: in the scenario the Root page has a row for C with document
\* count 3 and size "2.45 KB" (2510 bytes).
C3_RootRow245 ==
  (fs0 = ScenarioFS /\ <<README>> \in DOMAIN pages) =>
    LET row == pages[<<README>>].rows[1]
    IN  row.name = specifiedPath /\ row.count = 3 /\ row.size = "2.45 KB"

C3_Witness == fs0 = ScenarioFS /\ <<README>> \in DOMAIN pages /\ pc = "done"

\* C4: on the page of the designated collection every immediate
\* sub-directory s has its own sub-table: one row per direct document of s
\* when s has one, otherwise, when s has a sub-directory, one roll-up row
\* that links to the index of s and shows the recursive totals of s.
C4_SubTables ==
  \A p \in DOMAIN pages :
    pages[p].template = "specified" =>
      LET c == dirOf(p)
          subs == ascending({s[Len(s)] : s \in subDirectories(fs0, c)})
          tables == pages[p].tables
      IN  /\ Len(tables) = Len(subs)
          /\ \A i \in 1..Len(subs) :
               LET s == resolve(c, subs[i])
                   rows == tables[i].rows
               IN  /\ tables[i].name = subs[i]
                   /\ IF directDocuments(fs0, s) # {}
                      THEN /\ Len(rows) = Cardinality(directDocuments(fs0, s))
                           /\ \A k \in 1..Len(rows) : rows[k].kind = "file"
                      ELSE IF subDirectories(fs0, s) # {}
                      THEN /\ Len(rows) = 1
                           /\ rows[1].kind = "rollup"
                           /\ rows[1].link = rel(Append(s, README))
                           /\ rows[1].count = countMarkdownFiles(fs0, s)
                           /\ rows[1].words = estimateDirectoryWordCount(fs0, s)
                           /\ rows[1].size = getDirectorySize(fs0, s).formatted
                      ELSE TRUE

\* C5: when the root path does not exist the run exits before the scan and
\* leaves the file system as it was: nothing is written.
C5_MissingRootAborts ==
  fs0 = NoFS =>
    /\ pc \in {"start", "exited"}
    /\ fs = fs0
    /\ writes = <<>>
    /\ DOMAIN pages = {}

C5_Witness == fs0 = NoFS /\ pc = "exited" /\ fs = NoFS

\* C6: a list, stat or read failure below the root never ends the run: the
\* only uncaught exception is a failed write, and a run that ends has
\* written the index of every directory whose ancestors can be listed.
C6_SubPathFailureNonFatal ==
  /\ pc = "crashed" => crashedIn = "writeFileSync"
  /\ pc = "done" =>
       \A d \in directories(fs0) :
         (\A k \in 0..(Len(d) - 1) : scannable(fs0, SubSeq(d, 1, k)))
           => resolve(d, README) \in DOMAIN pages

\* C7: the file node of a file that cannot be read has size 0 and word
\* count 0 together.
C7_UnreadableFileAllZero ==
  scanned # None =>
    \A f \in fileNodes(scanned) :
      ~readFileOk(fs0, f.path) => f.size = 0 /\ f.wordCount = 0

\* the role of a directory as C8 defines it, and the template of a role
roleOf(d) ==
  IF d = targetDir THEN "Root"
  ELSE IF d[Len(d)] = specifiedPath THEN "DesignatedCollection"
  ELSE IF subDirectories(fs0, d) # {} THEN "Intermediate"
  ELSE "Leaf"
templateOf(role) ==
  CASE role = "Root" -> "root"
    [] role = "DesignatedCollection" -> "specified"
    [] role = "Intermediate" -> "intermediate"
    [] role = "Leaf" -> "normal"

\* C8: the index page of every visited directory is rendered by the
\* template of its role: Root for the top of the walk, DesignatedCollection
\* for a non-root directory with the configured name, Intermediate for any
\* other directory with a directory child, Leaf for the rest.
C8_RoleTemplates ==
  \A p \in DOMAIN pages :
    p[Len(p)] = README => pages[p].template = templateOf(roleOf(dirOf(p)))

\* the last segment of a node's path: the name of its directory entry
entryName(item) == item.path[Len(item.path)]

\* the rows of the sub-tables that list files are the file children found
\* by the first scan, in the same order
rescanAgrees ==
  \A p \in DOMAIN pages :
    pages[p].template = "specified" =>
      LET n == CHOOSE d \in dirNodes(scanned) : d.path = dirOf(p)
          subs == dirsOf(n)
      IN  \A i \in 1..Len(subs) :
            LET rows == pages[p].tables[i].rows
            IN  (rows # <<>> /\ rows[1].kind = "file") =>
                  [k \in 1..Len(rows) |-> rows[k].name]
                    = [k \in 1..Len(filesOf(subs[i])) |-> filesOf(subs[i])[k].name]

\* C9 as stated: in every directory node the file children precede the
\* directory children, the file children are in ascending order of their
\* names and so are the directory children, whatever the listing order; a
\* second scan of an unchanged directory gives the same children.
C9_ChildrenByName ==
  scanned # None =>
    /\ \A n \in dirNodes(scanned) :
         \A i, j \in 1..Len(n.children) :
           i < j =>
             LET x == n.children[i]
                 y == n.children[j]
             IN  /\ ~(isDir(x) /\ isFile(y))
                 /\ (isFile(x) /\ isFile(y)) => NameLess(x.name, y.name)
                 /\ (isDir(x) /\ isDir(y)) => NameLess(x.name, y.name)
    /\ rescanAgrees

\* C9 amended: the file children are in ascending order of their file names
\* with the .md extension (the names shown, without the extension, can be
\* out of order: "a-b" before "a"); the rest as stated.
C9_ChildrenByEntryName ==
  scanned # None =>
    /\ \A n \in dirNodes(scanned) :
         \A i, j \in 1..Len(n.children) :
           i < j =>
             LET x == n.children[i]
                 y == n.children[j]
             IN  /\ ~(isDir(x) /\ isFile(y))
                 /\ (isFile(x) /\ isFile(y)) => NameLess(entryName(x), entryName(y))
                 /\ (isDir(x) /\ isDir(y)) => NameLess(x.name, y.name)
    /\ rescanAgrees

\* a descending listing, a node with two files, a node with a file and a
\* directory, a node with two directories, and a sub-table built by a rescan
C9_Witness ==
  /\ reverse
  /\ scanned # None
  /\ \E n \in dirNodes(scanned) : Len(filesOf(n)) = 2
  /\ \E n \in dirNodes(scanned) : Len(filesOf(n)) > 0 /\ Len(dirsOf(n)) > 0
  /\ \E n \in dirNodes(scanned) : Len(dirsOf(n)) = 2
  /\ \E p \in DOMAIN pages :
       /\ pages[p].template = "specified"
       /\ \E i \in 1..Len(pages[p].tables) : Len(pages[p].tables[i].rows) = 2

\* C10: a run that completes has written README.md and _sidebar.md, once
\* each, in every directory of the scanned tree, and nothing else.
C10_TwoFilesPerDirectory ==
  pc = "done" =>
    LET D == {n.path : n \in dirNodes(scanned)}
    IN  /\ Range(writes) = {resolve(d, README) : d \in D}
                           \cup {resolve(d, SIDEBAR) : d \in D}
        /\ Len(writes) = 2 * Cardinality(D)

\* path.relative(from, to) with '/' separators, for any two paths
RECURSIVE commonPrefix(_, _)
commonPrefix(a, b) ==
  IF a = <<>> \/ b = <<>> \/ Head(a) # Head(b) THEN 0
  ELSE 1 + commonPrefix(Tail(a), Tail(b))
relativeFrom(from, to) ==
  LET k == commonPrefix(from, to)
  IN  [i \in 1..(Len(from) - k) |-> DotDot] \o SubSeq(to, k + 1, Len(to))

\* the directory node of the scanned tree with path d
nodeAt(d) == CHOOSE n \in dirNodes(scanned) : n.path = d

\* the file and directory links of the page written at p, each with the
\* path of the file it is meant to open: <<link, target>>
linksOf(p) ==
  LET page == pages[p]
      n == nodeAt(dirOf(p))
      files == filesOf(n)
      dirs == dirsOf(n)
      t == page.template
  IN  IF t = "root"
      THEN {<<page.rows[i].link,
              IF i = 1 THEN <<specifiedPath, README>>
              ELSE <<specifiedPath, page.rows[i].name, README>> >> :
              i \in 1..Len(page.rows)}
      ELSE IF t = "rootSidebar"
      THEN {<<page.collection[i], <<specifiedPath, README>> >> :
              i \in 1..Len(page.collection)}
           \cup {<<page.dirs[i].link, <<specifiedPath, page.dirs[i].name, README>> >> :
                   i \in 1..Len(page.dirs)}
      ELSE IF t = "specified"
      THEN UNION {
             {<<page.tables[i].rows[k].link,
                IF page.tables[i].rows[k].kind = "file"
                THEN filesOf(dirs[i])[k].path
                ELSE resolve(dirs[i].path, README)>> :
                k \in 1..Len(page.tables[i].rows)} :
             i \in 1..Len(page.tables)}
      ELSE {<<page.files[i].link, files[i].path>> : i \in 1..Len(page.files)}
           \cup {<<page.dirs[i].link, resolve(dirs[i].path, README)>> :
                   i \in 1..Len(page.dirs)}

\* C11: every file link and directory link of the index page and of the
\* sidebar of a directory is the relative path from that directory to the
\* target; below the root, the link to a direct document of the directory
\* is the file name alone, with no segment of an ancestor.
C11_LinksRelativeToPage ==
  \A p \in DOMAIN pages :
    \A lt \in linksOf(p) :
      lt[1] = rel(relativeFrom(dirOf(p), lt[2]))

\* the aggregate rows of the page written at p, each with the directory it
\* is about: [dir, count, words, size]
aggregatesOf(p) ==
  LET page == pages[p]
      n == nodeAt(dirOf(p))
      dirs == dirsOf(n)
      t == page.template
      agg(d, row) ==
        [dir |-> d, count |-> row.count, words |-> row.words, size |-> row.size]
  IN  IF t = "root"
      THEN {agg(IF i = 1 THEN <<specifiedPath>>
                ELSE <<specifiedPath, page.rows[i].name>>, page.rows[i]) :
              i \in 1..Len(page.rows)}
      ELSE IF t = "specified"
      THEN {agg(n.path, page.overview)}
           \cup UNION {
                  {agg(dirs[i].path, page.tables[i].rows[k]) :
                     k \in {j \in 1..Len(page.tables[i].rows) :
                              page.tables[i].rows[j].kind = "rollup"}} :
                  i \in 1..Len(page.tables)}
      ELSE IF t = "intermediate"
      THEN {agg(dirs[i].path, page.dirs[i]) : i \in 1..Len(page.dirs)}
      ELSE {}

\* the input documents below d: the .md files whose name is not reserved
documentsUnder(F, d) ==
  {q \in DOMAIN F : /\ Len(q) > Len(d)
                    /\ SubSeq(q, 1, Len(d)) = d
                    /\ F[q].type = "file"
                    /\ extname(q[Len(q)]) = MdExt
                    /\ q[Len(q)] \notin ignoreFiles}

RECURSIVE SumWords(_, _)
SumWords(F, S) ==
  IF S = {} THEN 0
  ELSE LET q == CHOOSE x \in S : TRUE
       IN  estimateWordCount(F, q) + SumWords(F, S \ {q})

\* C12: no entry with a reserved name (README.md, _sidebar.md, _navbar.md,
\* _coverpage.md) is a file node of the scanned tree, and every document
\* count and content volume shown on a page counts the input documents
\* only, no file with a reserved name.
C12_ReservedNeverCounted ==
  /\ scanned # None =>
       \A f \in fileNodes(scanned) : entryName(f) \notin ignoreFiles
  /\ \A p \in DOMAIN pages :
       \A a \in aggregatesOf(p) :
         /\ a.count = Cardinality(documentsUnder(fs0, a.dir))
         /\ a.words = SumWords(fs0, documentsUnder(fs0, a.dir))

\* whether the running script writes a sidebar for the node
wantsSidebar(n) ==
  IF script = "final" THEN writesSidebar(n) ELSE writesSidebarUsage(n)

\* the run has ended: main() returned, or a failed write ended it
ended == pc = "done" \/ (pc = "crashed" /\ crashedIn = "writeFileSync")

\* C13: a failed write of the index or of the sidebar of one directory stays
\* with that directory: when the run has ended, every other directory of the
\* scanned tree, the siblings and the children of the failing one included,
\* has its index and its sidebar written.
C13_WriteFailureConfined ==
  ended =>
    \A n \in dirNodes(scanned) :
      fs0[n.path].writable =>
        /\ resolve(n.path, README) \in DOMAIN pages
        /\ wantsSidebar(n) => resolve(n.path, SIDEBAR) \in DOMAIN pages

\* some write before the j-th one is a write of p
writtenBefore(p, j) == \E i \in 1..(j - 1) : writes[i] = p

RECURSIVE SumWordCount(_), SumSize(_)
SumWordCount(S) ==
  IF S = {} THEN 0
  ELSE LET f == CHOOSE x \in S : TRUE IN f.wordCount + SumWordCount(S \ {f})
SumSize(S) ==
  IF S = {} THEN 0
  ELSE LET f == CHOOSE x \in S : TRUE IN f.size + SumSize(S \ {f})

\* C15: for every directory node n of the scanned tree, the aggregates that
\* re-traverse the file system the scanner read equal the fold over the
\* file nodes of n's subtree: countMarkdownFiles is their number,
\* estimateDirectoryWordCount the sum of their wordCount, and the size of
\* getDirectorySize the sum of their size.
C15_AggregatesEqualFold ==
  scanned # None =>
    \A n \in dirNodes(scanned) :
      /\ countMarkdownFiles(fs0, n.path) = Cardinality(fileNodes(n))
      /\ estimateDirectoryWordCount(fs0, n.path) = SumWordCount(fileNodes(n))
      /\ getDirectorySize(fs0, n.path).size = SumSize(fileNodes(n))

\* the path a link opens when its segments are followed from the directory
\* base: '.' stays, '..' goes up one directory (and stays at the root)
RECURSIVE follow(_, _)
follow(base, segs) ==
  IF segs = <<>> THEN base
  ELSE IF Head(segs) = Dot THEN follow(base, Tail(segs))
  ELSE IF Head(segs) = DotDot
  THEN follow(IF base = <<>> THEN base ELSE dirOf(base), Tail(segs))
  ELSE follow(Append(base, Head(segs)), Tail(segs))

\* the files a link written in directory d may open: a link with a leading
\* '/' is followed from the root, any other link from d (the page being
\* rendered) or from the root (the base every generator computes its other
\* links from)
opens(d, link) ==
  IF link.abs THEN {follow(targetDir, link.segs)}
  ELSE {follow(d, link.segs), follow(targetDir, link.segs)}

\* C16: in the sidebar of every directory n below the root, the link back
\* to the parent opens the index page of n's parent directory (the Root
\* index when n is an immediate child of the root), never n's own index.
C16_BackToParent ==
  \A p \in DOMAIN pages :
    pages[p].template = "subdirSidebar" =>
      LET n == dirOf(p)
      IN  resolve(dirOf(n), README) \in opens(n, pages[p].backToParent)

\* no file with a reserved name exists when the run starts
cleanStart ==
  \A q \in DOMAIN fs0 : q = <<>> \/ q[Len(q)] \notin ignoreFiles

\* p lies below the directory d
under(d, p) == Len(p) > Len(d) /\ SubSeq(p, 1, Len(d)) = d

\* the position of the write of p in the sequence of writes
posOf(p) == CHOOSE i \in 1..Len(writes) : writes[i] = p

\* C17: in a run that starts without any reserved-name file, every
\* aggregate on a page is computed before the first write below the
\* directory it covers: no earlier write of the run lies below that
\* directory, and the count, the content volume and the size shown are
\* those of the file system the run started from, which hold no README.md
\* and no _sidebar.md.
C17_AggregatesBeforeWrites ==
  cleanStart =>
    \A p \in DOMAIN pages :
      \A a \in aggregatesOf(p) :
        /\ \A i \in 1..(posOf(p) - 1) : ~under(a.dir, writes[i])
        /\ a.count = countMarkdownFiles(fs0, a.dir)
        /\ a.count = Cardinality(documentsUnder(fs0, a.dir))
        /\ a.words = estimateDirectoryWordCount(fs0, a.dir)
        /\ a.size = getDirectorySize(fs0, a.dir).formatted

\* a completed run from a clean start in which a page written after other
\* pages shows the aggregate of a directory that holds documents and a
\* directory below it
C17_Witness ==
  /\ cleanStart
  /\ pc = "done"
  /\ \E p \in DOMAIN pages :
       /\ posOf(p) > 2
       /\ \E a \in aggregatesOf(p) :
            /\ a.count > 0
            /\ subDirectories(fs0, a.dir) # {}
            /\ \E w \in Range(writes) : under(a.dir, w) /\ w[Len(w)] = SIDEBAR

\* C18: a second run on the tree the first run left, its input documents
\* unchanged, writes for every directory an index page and a sidebar with
\* the same content as the first run wrote.
C18_SecondRunIdentical ==
  run > 1 =>
    /\ \A p \in DOMAIN pages : p \in DOMAIN previous /\ pages[p] = previous[p]
    /\ pc = "done" => DOMAIN pages = DOMAIN previous

=============================================================================
